---- MODULE Spec2Model ----
(***************************************************************************)
(* Model of database.py: the sqlite-backed metadata store of od-database.  *)
(* Tables are sets of rows (TaskResult, which is only ever appended to, is *)
(* a sequence); every method of class Database that the properties below   *)
(* talk about is one action or one operator.  Text values are tuples of    *)
(* one-character strings so that prefix, LIKE and urlparse are computed.   *)
(***************************************************************************)
EXTENDS Integers, Sequences, FiniteSets, TLC

VARIABLES now, Website, BlacklistedWebsite, CrawlServer, TaskResult,
          caller, enrich, lastOp

vars == <<now, Website, BlacklistedWebsite, CrawlServer, TaskResult,
          caller, enrich, lastOp>>

\* ------------------------------------------------------------------ bounds
MaxTime == 2
MaxWebsites == 2
MaxBlacklist == 3
MaxServers == 2
MaxResults == 2
MaxHits == 2
MaxTotalRows == 3

\* ------------------------------------------------------------- text values
\* An optional value (a fetchone() row, a method's result): None, or Some(x)
None == <<>>
Some(x) == <<x>>

HTTP == <<"h", "t", "t", "p", ":", "/", "/">>
ACOM == HTTP \o <<"a", ".", "c", "o", "m">>
U_ax == ACOM \o <<"/", "x">>
U_axyz == ACOM \o <<"/", "x", "y", "z">>
U_ay == ACOM \o <<"/", "y">>
U_az == ACOM \o <<"/", "z">>
U_aX == ACOM \o <<"/", "X">>
U_a == ACOM
U_aRoot == ACOM \o <<"/">>

EVIL == HTTP \o <<"e", "v", "i", "l", ".", "c", "o", "m">>
U_evilPath == EVIL \o <<"/", "p", "a", "t", "h">>
U_evilAny == EVIL \o <<"/", "a", "n", "y", "?", "q">>
U_evilQuery == EVIL \o <<"?", "q">>
U_evilUpper == HTTP \o <<"E", "V", "I", "L", ".", "c", "o", "m", "/">>
U_evilUnder == HTTP \o <<"e", "v", "i", "l", "_", "c", "o", "m", "/">>
U_pct == HTTP \o <<"%", "/", "x">>
U_notevil == HTTP \o <<"n", "o", "t", "e", "v", "i", "l", ".", "c", "o", "m", "/">>
U_noScheme == <<"e", "v", "i", "l", ".", "c", "o", "m", "/", "p">>
U_upperScheme == <<"H", "T", "T", "P", ":", "/", "/">> \o <<"e", "v", "i", "l", ".", "c", "o", "m">>

DELETED == <<"[", "D", "E", "L", "E", "T", "E", "D", "]">>

UpperCase == <<"A", "B", "C", "D", "E", "F", "G", "H", "I", "J", "K", "L", "M",
               "N", "O", "P", "Q", "R", "S", "T", "U", "V", "W", "X", "Y", "Z">>
LowerCase == <<"a", "b", "c", "d", "e", "f", "g", "h", "i", "j", "k", "l", "m",
               "n", "o", "p", "q", "r", "s", "t", "u", "v", "w", "x", "y", "z">>
Digits == {"0", "1", "2", "3", "4", "5", "6", "7", "8", "9"}

Range(s) == {s[i] : i \in DOMAIN s}

UpperChars == Range(UpperCase)
LowerChars == Range(LowerCase)

IsAlpha(c) == c \in UpperChars \cup LowerChars

\* str.lower() on one ASCII character, and on a text value
ToLower == [c \in UpperChars |->
              LowerCase[CHOOSE i \in DOMAIN UpperCase : UpperCase[i] = c]]

Lower(c) == IF c \in UpperChars THEN ToLower[c] ELSE c

LowerStr(s) == [i \in DOMAIN s |-> Lower(s[i])]

\* str.find(c): 1-based index of the first occurrence, 0 when there is none
Find(s, c) ==
    IF \E i \in DOMAIN s : s[i] = c
    THEN CHOOSE i \in DOMAIN s : s[i] = c /\ \A j \in 1..(i - 1) : s[j] # c
    ELSE 0

\* substr with the start taken as 1-based position 1 when Y is 0
SqlSubstr_FromOne(x, y, z) ==
    LET lo == IF y < 1 THEN 1 ELSE y
        hi == IF lo + z - 1 > Len(x) THEN Len(x) ELSE lo + z - 1
    IN  SubSeq(x, lo, hi)

\* SQL substr(X, Y, Z) for Y >= 0, Z >= 0: the characters at the 1-based
\* positions Y .. Y+Z-1 that exist (position 0 is before the first character)
SqlSubstr(x, y, z) ==
    LET lo == IF y < 1 THEN 1 ELSE y
        hi == IF y + z - 1 > Len(x) THEN Len(x) ELSE y + z - 1
    IN  SubSeq(x, lo, hi)

\* SQL LIKE of sqlite: % is any run of characters, _ is any one character,
\* everything else compares ignoring ASCII case; no ESCAPE clause
RECURSIVE SqlLike(_, _)
SqlLike(str, pat) ==
    IF pat = <<>> THEN str = <<>>
    ELSE IF Head(pat) = "%"
         THEN SqlLike(str, Tail(pat)) \/ (str # <<>> /\ SqlLike(Tail(str), pat))
         ELSE /\ str # <<>>
              /\ (Head(pat) = "_" \/ Lower(Head(pat)) = Lower(Head(str)))
              /\ SqlLike(Tail(str), Tail(pat))

\* urllib.parse.urlparse(url), the two fields the store uses
SchemeChars == UpperChars \cup LowerChars \cup Digits \cup {"+", "-", "."}

UrlParse(url) ==
    LET i == Find(url, ":")
        hasScheme == /\ i >= 2
                     /\ IsAlpha(url[1])
                     /\ \A k \in 1..(i - 1) : url[k] \in SchemeChars
        scheme == IF hasScheme THEN LowerStr(SubSeq(url, 1, i - 1)) ELSE <<>>
        rest == IF hasScheme THEN SubSeq(url, i + 1, Len(url)) ELSE url
        hasNetloc == Len(rest) >= 2 /\ rest[1] = "/" /\ rest[2] = "/"
        delims == {k \in 3..Len(rest) : rest[k] \in {"/", "?", "#"}}
        stop == IF delims = {} THEN Len(rest) + 1
                ELSE CHOOSE k \in delims : \A m \in delims : k <= m
        netloc == IF hasNetloc THEN SubSeq(rest, 3, stop - 1) ELSE <<>>
    IN  [scheme |-> scheme, netloc |-> netloc]

\* the url kept whole, path and query included
NormalizedOrigin_Raw(url) == url

\* parsed_url.scheme + "://" + parsed_url.netloc
NormalizedOrigin(url) ==
    LET parsed_url == UrlParse(url)
    IN  parsed_url.scheme \o <<":", "/", "/">> \o parsed_url.netloc

\* --------------------------------------------------------------- row ids
Max(S) == CHOOSE x \in S : \A y \in S : y <= x

\* LAST_INSERT_ROWID() of an INTEGER PRIMARY KEY table: one above the largest
\* id now stored, 1 in an empty table
NextRowId(table) ==
    IF table = {} THEN 1 ELSE Max({r.id : r \in table}) + 1


\* ---------------------------------------------------------------- inputs
Ips == {<<"1">>, <<"2">>}
UserAgents == {<<"u", "a">>}
RegistryUrls == {U_ax, U_axyz, U_ay}
Candidates == {U_ax, U_axyz, U_ay, U_az, U_aX, U_a, U_aRoot, <<>>}
WebsiteIds == 1..MaxWebsites
Callers == {"c1", "c2"}

\* ---------------------------------------------------------- initial state
Idle == [pc |-> "idle", url |-> <<>>, chk |-> None, seen |-> {}]
EmptyPage == [hits |-> [hits |-> <<>>]]
EmptyStats == [website_scatter |-> <<>>]
NoEnrich == [kind |-> "none", websites |-> None,
             page_in |-> EmptyPage, page_out |-> EmptyPage,
             docs_in |-> <<>>, docs_out |-> <<>>,
             stats_in |-> EmptyStats, stats_out |-> EmptyStats]
NoOp == [op |-> "none", args |-> <<>>, runs |-> 0]

Init ==
    /\ now = 0
    /\ Website = {}
    /\ BlacklistedWebsite = {}
    /\ CrawlServer = {}
    /\ TaskResult = <<>>
    /\ caller = [c \in Callers |-> Idle]
    /\ enrich = NoEnrich
    /\ lastOp = NoOp

\* CURRENT_TIMESTAMP moves on between calls
Tick ==
    /\ now < MaxTime
    /\ now' = now + 1
    /\ UNCHANGED <<Website, BlacklistedWebsite, CrawlServer, TaskResult>>

\* ------------------------------------------------------- table Website
\* Column order of table Website, as SELECT * returns it
WebsiteColumns == <<"id", "url", "logged_ip", "logged_useragent", "last_modified">>

\* Whether the schema puts a UNIQUE constraint on Website.url
WebsiteUrlUnique == FALSE

\* Column default of Website.last_modified
WebsiteDefaultLastModified == now

\* One fetched row: the selected columns in order
SelectColumns(row, cols) == [i \in DOMAIN cols |-> row[cols[i]]]

\* Website(url, logged_ip, logged_useragent, last_modified, website_id)
WebsiteObject(url, logged_ip, logged_useragent, last_modified, website_id) ==
    [url |-> url, logged_ip |-> logged_ip, logged_useragent |-> logged_useragent,
     last_modified |-> last_modified, id |-> website_id]

UpdateWebsiteDateIfExists(website_id) ==
    /\ Website' = {IF w.id = website_id
                   THEN [w EXCEPT !.last_modified = now] ELSE w : w \in Website}
    /\ UNCHANGED <<now, BlacklistedWebsite, CrawlServer, TaskResult>>

InsertWebsite(url, logged_ip, logged_useragent) ==
    /\ NextRowId(Website) <= MaxWebsites
    /\ ~(WebsiteUrlUnique /\ \E w \in Website : w.url = url)
    /\ Website' = Website \cup
         {[id |-> NextRowId(Website), url |-> url, logged_ip |-> logged_ip,
           logged_useragent |-> logged_useragent,
           last_modified |-> WebsiteDefaultLastModified]}
    /\ UNCHANGED <<now, BlacklistedWebsite, CrawlServer, TaskResult>>

\* fetchone() of a query with no ORDER BY gives any of the matching rows;
\* each getter is the set of values the call can return
GetWebsiteByUrl(url) ==
    LET rows == {SelectColumns(w, <<"id", "url", "logged_ip", "logged_useragent",
                                    "last_modified">>) : w \in {x \in Website : x.url = url}}
    IN  IF rows = {} THEN {None}
        ELSE {Some(WebsiteObject(db_web[2], db_web[3], db_web[4], db_web[5], db_web[1])) :
                db_web \in rows}

\* get_website_by_id taking logged_ip and logged_useragent from each other's column
GetWebsiteById_Swapped(website_id) ==
    LET rows == {SelectColumns(w, WebsiteColumns) : w \in {x \in Website : x.id = website_id}}
    IN  IF rows = {} THEN {None}
        ELSE {Some([WebsiteObject(db_web[2], db_web[4], db_web[3], db_web[5], None)
                      EXCEPT !.id = db_web[1]]) : db_web \in rows}

GetWebsiteById(website_id) ==
    LET rows == {SelectColumns(w, WebsiteColumns) : w \in {x \in Website : x.id = website_id}}
    IN  IF rows = {} THEN {None}
        ELSE {Some([WebsiteObject(db_web[2], db_web[3], db_web[4], db_web[5], None)
                      EXCEPT !.id = db_web[1]]) : db_web \in rows}

\* website_exists matching the exact url only
WebsiteExists_ExactOnly(url) ==
    LET rows == {w \in Website : w.url = url}
    IN  IF rows = {} THEN {None} ELSE {Some(w.id) : w \in rows}

\* SELECT id FROM Website WHERE url = substr(?, 0, length(url) + 1)
WebsiteExists(url) ==
    LET rows == {w \in Website : w.url = SqlSubstr(url, 0, Len(w.url) + 1)}
    IN  IF rows = {} THEN {None} ELSE {Some(w.id) : w \in rows}

\* delete_website that also deletes the task results of the website
DeleteWebsite_Cascade(website_id) ==
    /\ Website' = {w \in Website : w.id # website_id}
    /\ TaskResult' = SelectSeq(TaskResult, LAMBDA r : r.website_id # website_id)
    /\ UNCHANGED <<now, BlacklistedWebsite, CrawlServer>>

DeleteWebsite(website_id) ==
    /\ Website' = {w \in Website : w.id # website_id}
    /\ UNCHANGED <<now, BlacklistedWebsite, CrawlServer, TaskResult>>

\* SELECT id, url FROM Website, as a dict id -> url
GetAllWebsites == [i \in {w.id : w \in Website} |->
                     (CHOOSE w \in Website : w.id = i).url]

\* ------------------------------------------ specification: the registry
Quiet == UNCHANGED <<caller, enrich, lastOp>>

RegTick == Tick /\ Quiet
RegInsert == \E url \in RegistryUrls, ip \in Ips, ua \in UserAgents :
                InsertWebsite(url, ip, ua) /\ Quiet
RegTouch == \E id \in WebsiteIds : UpdateWebsiteDateIfExists(id) /\ Quiet
RegDelete == \E id \in WebsiteIds : DeleteWebsite(id) /\ Quiet

NextRegistry == RegTick \/ RegInsert \/ RegTouch \/ RegDelete

SpecRegistry == Init /\ [][NextRegistry]_vars

\* text p is a prefix of text s (equality included)
IsPrefix(p, s) == Len(p) <= Len(s) /\ \A i \in 1..Len(p) : p[i] = s[i]

C10_GettersAgree ==
    \A W \in Website :
      /\ None \notin GetWebsiteById(W.id) \cup GetWebsiteByUrl(W.url)
      /\ \A a \in GetWebsiteById(W.id), b \in GetWebsiteByUrl(W.url) : a = b

\* C10 amended: the same for every stored Website whose url no other stored
\* Website shares; both records then hold the five stored fields of W.
C10_GettersAgreeOnUniqueUrl ==
    \A W \in Website :
      (\A V \in Website : V.url = W.url => V = W) =>
        /\ GetWebsiteById(W.id) = {Some(W)}
        /\ GetWebsiteByUrl(W.url) = {Some(W)}

C10_Witness ==
    \E W \in Website :
      /\ Cardinality(Website) = 2
      /\ \A V \in Website : V.url = W.url => V = W
      /\ W.last_modified > 0
      /\ GetWebsiteById(W.id) = GetWebsiteByUrl(W.url)

\* ------------------- specification: one caller that checks, then inserts
\* The caller asks exists(url) and remembers the answer
CallWebsiteExists(c, url) ==
    /\ caller[c].pc = "idle"
    /\ \E r \in WebsiteExists(url) :
         caller' = [caller EXCEPT ![c] = [pc |-> "checked", url |-> url, chk |-> r,
                                            seen |-> {}]]
    /\ UNCHANGED <<now, Website, BlacklistedWebsite, CrawlServer, TaskResult>>

\* ... and inserts the url only when the answer was null
InsertIfNew(c, logged_ip, logged_useragent) ==
    /\ caller[c].pc = "checked"
    /\ caller[c].chk = None
    /\ InsertWebsite(caller[c].url, logged_ip, logged_useragent)
    /\ caller' = [caller EXCEPT ![c] = Idle]

SkipKnown(c) ==
    /\ caller[c].pc = "checked"
    /\ caller[c].chk # None
    /\ caller' = [caller EXCEPT ![c] = Idle]
    /\ UNCHANGED <<now, Website, BlacklistedWebsite, CrawlServer, TaskResult>>

GuardCheck == \E url \in RegistryUrls : CallWebsiteExists("c1", url) /\ UNCHANGED <<enrich, lastOp>>
GuardInsert == \E ip \in Ips, ua \in UserAgents : InsertIfNew("c1", ip, ua) /\ UNCHANGED <<enrich, lastOp>>
GuardSkip == SkipKnown("c1") /\ UNCHANGED <<enrich, lastOp>>
GuardTouch == \E id \in WebsiteIds : UpdateWebsiteDateIfExists(id) /\ Quiet
GuardDelete == \E id \in WebsiteIds : DeleteWebsite(id) /\ Quiet

NextGuarded == GuardCheck \/ GuardInsert \/ GuardSkip \/ GuardTouch \/ GuardDelete \/ RegTick

SpecGuarded == Init /\ [][NextGuarded]_vars

\* C1 as stated: with inserts made only after exists(url) returned null, no
\* two stored Websites have urls of which one is a string prefix of the other.
C1_NoPrefixPair ==
    \A W1, W2 \in Website : W1 # W2 => ~IsPrefix(W1.url, W2.url)

\* C1 amended: no stored Website's url is a prefix of (or equal to) the url of
\* a Website inserted after it; the later one may be a prefix of the earlier.
C1_NoEarlierPrefix ==
    \A W1, W2 \in Website : W1.id < W2.id => ~IsPrefix(W1.url, W2.url)

C1_Witness ==
    /\ Cardinality(Website) = 2
    /\ \E W1, W2 \in Website : W1.id < W2.id /\ W1.url = U_ax /\ W2.url = U_ay
    /\ caller["c1"].pc = "checked" /\ caller["c1"].url = U_axyz /\ caller["c1"].chk # None

\* ------------------------------------------- table BlacklistedWebsite
BlacklistUrls == {U_evilPath, U_evilUpper, U_notevil, U_noScheme, U_upperScheme, U_aRoot}
BlacklistProbes == {U_evilPath, U_evilAny, U_evilQuery, EVIL, U_evilUpper, U_evilUnder,
                    U_pct, U_notevil, U_noScheme, U_upperScheme, U_ax}
BlacklistIds == 1..MaxBlacklist

AddBlacklistWebsite(url) ==
    /\ NextRowId(BlacklistedWebsite) <= MaxBlacklist
    /\ BlacklistedWebsite' = BlacklistedWebsite \cup
         {[id |-> NextRowId(BlacklistedWebsite), url |-> NormalizedOrigin(url)]}
    /\ UNCHANGED <<now, Website, CrawlServer, TaskResult>>

RemoveBlacklistWebsite(blacklist_id) ==
    /\ BlacklistedWebsite' = {b \in BlacklistedWebsite : b.id # blacklist_id}
    /\ UNCHANGED <<now, Website, CrawlServer, TaskResult>>

\* is_blacklisted that never finds an entry
IsBlacklisted_Never(url) == FALSE

\* SELECT id FROM BlacklistedWebsite WHERE url LIKE ? LIMIT 1: the stored
\* value is the text, the candidate's origin is the pattern
IsBlacklisted(url) ==
    \E b \in BlacklistedWebsite : SqlLike(b.url, NormalizedOrigin(url))

\* BlacklistedWebsite(blacklist_id, url) for every row
GetBlacklist == {[id |-> r.id, netloc |-> r.url] : r \in BlacklistedWebsite}

BlAdd == \E url \in BlacklistUrls : AddBlacklistWebsite(url) /\ Quiet
BlRemove == \E id \in BlacklistIds : RemoveBlacklistWebsite(id) /\ Quiet

NextBlacklist == BlAdd \/ BlRemove

SpecBlacklist == Init /\ [][NextBlacklist]_vars

\* text t is scheme "://" authority and nothing more: nothing follows the
\* authority, which ends at the first "/", "?" or "#"
HasNoPath(t) ==
    LET i == Find(t, ":")
    IN  /\ i > 0 /\ i + 2 <= Len(t)
        /\ t[i + 1] = "/" /\ t[i + 2] = "/"
        /\ \A k \in (i + 3)..Len(t) : t[k] \notin {"/", "?", "#"}

HasWildcard(t) == \E k \in DOMAIN t : t[k] \in {"%", "_"}

\* what is stored for each url that add() is given, written out
ExpectedOrigin(url) ==
    CASE url \in {U_evilPath, U_evilAny, U_evilQuery, EVIL, U_upperScheme} -> EVIL
      [] url = U_evilUpper -> HTTP \o <<"E", "V", "I", "L", ".", "c", "o", "m">>
      [] url = U_evilUnder -> HTTP \o <<"e", "v", "i", "l", "_", "c", "o", "m">>
      [] url = U_pct -> HTTP \o <<"%">>
      [] url = U_notevil -> HTTP \o <<"n", "o", "t", "e", "v", "i", "l", ".", "c", "o", "m">>
      [] url = U_noScheme -> <<":", "/", "/">>
      [] url \in {U_aRoot, U_ax} -> ACOM

\* C6 as stated: every entry holds only scheme://authority, and
\* isBlacklisted(v) is true exactly when the scheme+authority of v equals
\* that of a stored entry, whatever the path or query of v.
C6_OriginOnlyExact ==
    /\ \A b \in BlacklistedWebsite :
         HasNoPath(b.url) /\ b.url \in {ExpectedOrigin(u) : u \in BlacklistUrls}
    /\ \A v \in BlacklistProbes :
         IsBlacklisted(v) <=> \E b \in BlacklistedWebsite : b.url = ExpectedOrigin(v)

\* C6 amended: entries hold only scheme://authority; isBlacklisted(v) is true
\* when a stored entry equals the scheme+authority of v; it is false when v's
\* scheme+authority has no % or _ and equals no stored entry ignoring ASCII
\* case (the lookup is a LIKE with v's origin as the pattern).
C6_OriginOnlyLike ==
    /\ \A b \in BlacklistedWebsite :
         HasNoPath(b.url) /\ b.url \in {ExpectedOrigin(u) : u \in BlacklistUrls}
    /\ \A v \in BlacklistProbes :
         (\E b \in BlacklistedWebsite : b.url = ExpectedOrigin(v)) => IsBlacklisted(v)
    /\ \A v \in BlacklistProbes :
         (/\ ~HasWildcard(ExpectedOrigin(v))
          /\ \A b \in BlacklistedWebsite : LowerStr(b.url) # LowerStr(ExpectedOrigin(v)))
           => ~IsBlacklisted(v)
    /\ (\E b \in BlacklistedWebsite : b.url = EVIL) => IsBlacklisted(U_evilAny)
    /\ ({b.url : b \in BlacklistedWebsite} = {EVIL}) => ~IsBlacklisted(U_notevil)

C6_Witness ==
    /\ {b.url : b \in BlacklistedWebsite} = {EVIL}
    /\ IsBlacklisted(U_evilAny) /\ IsBlacklisted(U_evilQuery)
    /\ ~IsBlacklisted(U_notevil)
    /\ \E b \in BlacklistedWebsite : b.id > 1

\* ------------ specification: callers that check the blacklist, then insert
RaceUrls == {U_evilPath, U_notevil}
RaceBlacklistUrls == {U_evilAny, U_notevil}

\* A caller asks isBlacklisted(url) and remembers the answer; seen records
\* which entries the blacklist held when the check ran
CallIsBlacklisted(c, url) ==
    /\ caller[c].pc = "idle"
    /\ caller' = [caller EXCEPT ![c] =
                    [pc |-> "checked", url |-> url, chk |-> Some(IsBlacklisted(url)),
                     seen |-> {b.id : b \in BlacklistedWebsite}]]
    /\ UNCHANGED <<now, Website, BlacklistedWebsite, CrawlServer, TaskResult>>

\* ... and inserts the url, in a call of its own, when the answer was false
InsertIfAllowed(c, logged_ip, logged_useragent) ==
    /\ caller[c].pc = "checked"
    /\ caller[c].chk = Some(FALSE)
    /\ InsertWebsite(caller[c].url, logged_ip, logged_useragent)
    /\ caller' = [caller EXCEPT ![c] = Idle]

SkipBlacklisted(c) ==
    /\ caller[c].pc = "checked"
    /\ caller[c].chk = Some(TRUE)
    /\ caller' = [caller EXCEPT ![c] = Idle]
    /\ UNCHANGED <<now, Website, BlacklistedWebsite, CrawlServer, TaskResult>>

RaceCheck == \E c \in Callers, url \in RaceUrls :
                CallIsBlacklisted(c, url) /\ UNCHANGED <<enrich, lastOp>>
RaceInsert == \E c \in Callers, ip \in Ips, ua \in UserAgents :
                InsertIfAllowed(c, ip, ua) /\ UNCHANGED <<enrich, lastOp>>
RaceSkip == \E c \in Callers : SkipBlacklisted(c) /\ UNCHANGED <<enrich, lastOp>>
RaceAdd == \E url \in RaceBlacklistUrls : AddBlacklistWebsite(url) /\ Quiet

NextRace == RaceCheck \/ RaceInsert \/ RaceSkip \/ RaceAdd

SpecRace == Init /\ [][NextRace]_vars

\* C2 as stated: no insert creates a Website row whose scheme+authority is on
\* the blacklist at the moment the insert commits.
C2_NeverInsertBlacklisted ==
    [][\A w \in Website' \ Website : ~IsBlacklisted(w.url)]_vars

\* C2 amended: a row is inserted only by a caller whose check returned false,
\* and every blacklist entry that matches the row when the insert commits was
\* added after that caller's check ran.
C2_InsertOnlyUnblockedAtCheck ==
    [][\A w \in Website' \ Website :
         \E c \in Callers :
           /\ caller[c].pc = "checked" /\ caller'[c].pc = "idle"
           /\ caller[c].url = w.url
           /\ caller[c].chk = Some(FALSE)
           /\ \A b \in BlacklistedWebsite :
                SqlLike(b.url, ExpectedOrigin(w.url)) => b.id \notin caller[c].seen]_vars

C2_Witness ==
    /\ \E w \in Website : w.url = U_evilPath /\ IsBlacklisted(w.url)
    /\ \E c \in Callers : caller[c].pc = "checked" /\ caller[c].chk = Some(TRUE)

\* ------------------------------------- tables CrawlServer and TaskResult
ServerNames == {"s1", "s2"}
ServerUrls == {"http://crawl"}
ServerSlots == {4}
ServerTokens == {"tok"}
ServerIds == 1..MaxServers

\* task.CrawlServer(url, name, slots, token, server_id)
CrawlServerObject(url, name, slots, token, server_id) ==
    [url |-> url, name |-> name, slots |-> slots, token |-> token, id |-> server_id]

\* add_crawl_server that skips a server whose url and name are already stored
AddCrawlServer_IfAbsent(server) ==
    /\ NextRowId(CrawlServer) <= MaxServers
    /\ CrawlServer' =
         IF \E r \in CrawlServer : r.url = server.url /\ r.name = server.name
         THEN CrawlServer
         ELSE CrawlServer \cup
                {[id |-> NextRowId(CrawlServer), url |-> server.url, name |-> server.name,
                  slots |-> server.slots, token |-> server.token]}
    /\ UNCHANGED <<now, Website, BlacklistedWebsite, TaskResult>>

AddCrawlServer(server) ==
    /\ NextRowId(CrawlServer) <= MaxServers
    /\ CrawlServer' = CrawlServer \cup
         {[id |-> NextRowId(CrawlServer), url |-> server.url, name |-> server.name,
           slots |-> server.slots, token |-> server.token]}
    /\ UNCHANGED <<now, Website, BlacklistedWebsite, TaskResult>>

RemoveCrawlServer(server_id) ==
    /\ CrawlServer' = {r \in CrawlServer : r.id # server_id}
    /\ UNCHANGED <<now, Website, BlacklistedWebsite, TaskResult>>

GetCrawlServers ==
    {CrawlServerObject(r.url, r.name, r.slots, r.token, r.id) : r \in CrawlServer}

UpdateCrawlServer(server_id, url, name, slots) ==
    /\ CrawlServer' = {IF r.id = server_id
                       THEN [r EXCEPT !.url = url, !.name = name, !.slots = slots]
                       ELSE r : r \in CrawlServer}
    /\ UNCHANGED <<now, Website, BlacklistedWebsite, TaskResult>>

\* A stored TIMESTAMP is a date and time of day, here <<minute, second>>;
\* datetime.timestamp() is its count of seconds
Timestamp(dt) == dt[1] * 60 + dt[2]

\* ORDER BY on TIMESTAMP values: a is later than b
Later(a, b) == a[1] > b[1] \/ (a[1] = b[1] /\ a[2] > b[2])

\* Column default of TaskResult.indexed_time when the INSERT leaves it out
TaskResultDefaultIndexedTime == None

\* crawl_server.database.TaskResult(status_code, file_count, start_time,
\*                                  end_time, website_id, indexed_time, server_name)
TaskResultObject(status_code, file_count, start_time, end_time, website_id, indexed_time, server_name) ==
    [status_code |-> status_code, file_count |-> file_count, start_time |-> start_time,
     end_time |-> end_time, website_id |-> website_id, indexed_time |-> indexed_time,
     server_name |-> server_name]

LogResult(result) ==
    /\ Len(TaskResult) < MaxResults
    /\ TaskResult' = Append(TaskResult,
         [server |-> result.server_id, website_id |-> result.website_id,
          status_code |-> result.status_code, file_count |-> result.file_count,
          start_time |-> result.start_time, end_time |-> result.end_time,
          indexed_time |-> TaskResultDefaultIndexedTime])
    /\ UNCHANGED <<now, Website, BlacklistedWebsite, CrawlServer>>

\* FROM TaskResult INNER JOIN CrawlServer S on TaskResult.server = S.id:
\* one joined row <<website_id, status_code, file_count, start_time, end_time,
\* indexed_time, S.name>>, tagged with its place in the table, for each
\* TaskResult row and each CrawlServer row with that id
JoinedRows ==
    {<<p[1], <<TaskResult[p[1]].website_id, TaskResult[p[1]].status_code,
               TaskResult[p[1]].file_count, TaskResult[p[1]].start_time,
               TaskResult[p[1]].end_time, TaskResult[p[1]].indexed_time, p[2].name>>>> :
        p \in {q \in (DOMAIN TaskResult) \X CrawlServer : TaskResult[q[1]].server = q[2].id}}

\* the joined rows ORDER BY end_time DESC (rows of equal end_time in table
\* order): each row goes to the place after the rows that come before it
ComesBefore(j, k) ==
    \/ Later(j[2][5], k[2][5])
    \/ (j[2][5] = k[2][5] /\ j[1] < k[1])

OrderByEndTimeDesc(joined) ==
    [n \in 1..Cardinality(joined) |->
       (CHOOSE j \in joined :
          Cardinality({k \in joined : ComesBefore(k, j)}) = n - 1)[2]]

\* TaskResult(r[1], r[2], r[3].timestamp(), r[4].timestamp(), r[0],
\*            r[5].timestamp() if r[5] else None, r[6]) for every fetched row
BuildTaskResults(fetched) ==
    [n \in DOMAIN fetched |->
       LET r == fetched[n]
       IN  TaskResultObject(r[2], r[3], Timestamp(r[4]), Timestamp(r[5]), r[1],
                            IF r[6] # None THEN Some(Timestamp(r[6][1])) ELSE None,
                            r[7])]

\* get_crawl_logs that also joins Website and so drops results whose website is gone
GetCrawlLogs_JoinWebsite ==
    BuildTaskResults(OrderByEndTimeDesc(
        {j \in JoinedRows : \E w \in Website : w.id = j[2][1]}))

GetCrawlLogs == BuildTaskResults(OrderByEndTimeDesc(JoinedRows))

\* sum(f(result) for result in task_results if result.server_name == name),
\* over the first n results
RECURSIVE SumFirst(_, _, _, _)
SumFirst(task_results, n, name, what) ==
    IF n = 0 THEN 0
    ELSE LET result == task_results[n]
             term == IF result.server_name # name THEN 0
                     ELSE CASE what = "count" -> 1
                            [] what = "file_count" -> result.file_count
                            [] what = "time" -> result.end_time - result.start_time
         IN  term + SumFirst(task_results, n - 1, name, what)

SumWhere(task_results, name, what) == SumFirst(task_results, Len(task_results), name, what)

RECURSIVE GCD(_, _)
GCD(a, b) == IF b = 0 THEN a ELSE GCD(b, a % b)

Abs(a) == IF a < 0 THEN 0 - a ELSE a

\* a // b, the floor of the quotient
FloorDiv(a, b) == [num |-> a \div b, den |-> 1]

\* a / b on numbers: the quotient itself, held as a fraction in lowest terms
TrueDiv(a, b) ==
    LET g == GCD(Abs(a), b)
    IN  [num |-> a \div g, den |-> b \div g]

\* the body of get_stats_by_server, for the fetched logs and servers
StatsByServer(task_results, servers) ==
    LET counted == {server \in servers :
                      SumWhere(task_results, server.name, "count") > 0}
    IN  [name \in {server.name : server \in counted} |->
           LET task_count == SumWhere(task_results, name, "count")
               file_count == SumWhere(task_results, name, "file_count")
               time == SumWhere(task_results, name, "time")
           IN  [file_count |-> file_count,
                time |-> time,
                task_count |-> task_count,
                time_avg |-> TrueDiv(time, task_count),
                file_count_avg |-> TrueDiv(file_count, task_count)]]

\* task_results = self.get_crawl_logs() and self.get_crawl_servers() are each
\* fetched once and the loop works on the fetched values
GetStatsByServer ==
    CHOOSE stats \in {StatsByServer(task_results, servers) :
                        task_results \in {GetCrawlLogs}, servers \in {GetCrawlServers}} : TRUE

\* ------------------------- specification: the fleet and its task results
FleetUrl == U_ax
FleetIp == <<"1">>
FleetUserAgent == <<"u", "a">>
FleetWebsiteIds == {1}
ResultShapes == {[file_count |-> 10, start_time |-> <<0, 55>>, end_time |-> <<1, 0>>],
                 [file_count |-> 20, start_time |-> <<1, 50>>, end_time |-> <<2, 5>>],
                 [file_count |-> 5, start_time |-> <<0, 0>>, end_time |-> <<0, 5>>]}

NewServers == {[url |-> u, name |-> n, slots |-> k, token |-> t] :
                 u \in ServerUrls, n \in ServerNames, k \in ServerSlots, t \in ServerTokens}

NewResults(servers, websites) ==
    {[server_id |-> sv, website_id |-> w, status_code |-> "200",
      file_count |-> sh.file_count, start_time |-> sh.start_time, end_time |-> sh.end_time] :
        sv \in servers, w \in websites, sh \in ResultShapes}

FleetRegister == \E server \in NewServers : AddCrawlServer(server) /\ Quiet
FleetUnregister == \E id \in ServerIds : RemoveCrawlServer(id) /\ Quiet
FleetUpdate == \E id \in ServerIds, u \in ServerUrls, n \in ServerNames, k \in ServerSlots :
                  UpdateCrawlServer(id, u, n, k) /\ Quiet
FleetAppend == \E result \in NewResults(ServerIds, FleetWebsiteIds) :
                  LogResult(result) /\ Quiet
FleetInsert == /\ Website = {}
               /\ InsertWebsite(FleetUrl, FleetIp, FleetUserAgent) /\ Quiet
FleetDelete == \E id \in FleetWebsiteIds : DeleteWebsite(id) /\ Quiet

NextFleet == FleetRegister \/ FleetUnregister \/ FleetUpdate \/ FleetAppend
             \/ FleetInsert \/ FleetDelete

SpecFleet == Init /\ [][NextFleet]_vars

\* the sum of f over a set of TaskResult rows, given by their places
RECURSIVE SumRows(_, _)
SumRows(rows, what) ==
    IF rows = {} THEN 0
    ELSE LET i == CHOOSE x \in rows : TRUE
             term == CASE what = "file_count" -> TaskResult[i].file_count
                       [] what = "time" -> (TaskResult[i].end_time[1] * 60 + TaskResult[i].end_time[2])
                                           - (TaskResult[i].start_time[1] * 60
                                              + TaskResult[i].start_time[2])
         IN  term + SumRows(rows \ {i}, what)

\* entry e is the aggregate of the TaskResult rows at the places rows
IsAggregateOf(e, rows) ==
    LET N == Cardinality(rows)
    IN  /\ e.task_count = N
        /\ e.file_count = SumRows(rows, "file_count")
        /\ e.time = SumRows(rows, "time")
        /\ e.time_avg.num * N = e.time * e.time_avg.den
        /\ e.file_count_avg.num * N = e.file_count * e.file_count_avg.den

RowsOfServers(ids) == {i \in DOMAIN TaskResult : TaskResult[i].server \in ids}

\* C3 as stated: statsByServer() has an entry for a registered server S exactly
\* when a TaskResult row has server_id = S.id, and stats[S.name] aggregates
\* exactly those rows (count, sums, and the two averages as true quotients).
C3_StatsPerServerId ==
    \A S \in CrawlServer :
      LET rows == RowsOfServers({S.id})
      IN  /\ (S.name \in DOMAIN GetStatsByServer) <=> (rows # {})
          /\ rows # {} => IsAggregateOf(GetStatsByServer[S.name], rows)

\* C3 amended: statsByServer() has an entry for a name exactly when a
\* TaskResult row belongs to a registered server of that name, and the entry
\* aggregates the rows of all registered servers of that name; with s1 alone
\* and results of 10 and 20 files over 5 and 15 seconds the entry is
\* {file_count 30, task_count 2, time 20, time_avg 10, file_count_avg 15}.
C3_StatsPerServerName ==
    /\ \A name \in ServerNames \cup DOMAIN GetStatsByServer :
         LET rows == RowsOfServers({S.id : S \in {x \in CrawlServer : x.name = name}})
         IN  /\ (name \in DOMAIN GetStatsByServer) <=> (rows # {})
             /\ rows # {} => IsAggregateOf(GetStatsByServer[name], rows)
    /\ (/\ \E S \in CrawlServer : S.name = "s1" /\ S.id = 1
        /\ \A S \in CrawlServer : S.name = "s1" => S.id = 1
        /\ Len(TaskResult) = 2
        /\ \A i \in 1..2 : TaskResult[i].server = 1
        /\ {TaskResult[i].file_count : i \in 1..2} = {10, 20}
        /\ {TaskResult[i].end_time : i \in 1..2} = {<<1, 0>>, <<2, 5>>})
         => GetStatsByServer["s1"] =
              [file_count |-> 30, task_count |-> 2, time |-> 20,
               time_avg |-> [num |-> 10, den |-> 1],
               file_count_avg |-> [num |-> 15, den |-> 1]]

C3_Witness ==
    /\ Cardinality(CrawlServer) = 2
    /\ {S.name : S \in CrawlServer} = {"s1", "s2"}
    /\ Len(TaskResult) = 2
    /\ \A i \in 1..2 : TaskResult[i].server = (CHOOSE S \in CrawlServer : S.name = "s1").id
    /\ DOMAIN GetStatsByServer = {"s1"}
    /\ GetStatsByServer["s1"].file_count_avg.den = 2

\* C4 as stated: after delete(id) of a Website that TaskResult rows refer to,
\* those rows are excluded from listAll() and from statsByServer().
C4_DeletedWebsiteRowsExcluded ==
    [][\A w \in Website \ Website' :
         /\ \A n \in DOMAIN GetCrawlLogs' : GetCrawlLogs'[n].website_id # w.id
         /\ \A name \in DOMAIN GetStatsByServer' :
              GetStatsByServer'[name].task_count =
                Cardinality({i \in RowsOfServers({S.id : S \in {x \in CrawlServer : x.name = name}}) :
                               TaskResult[i].website_id # w.id})]_vars

\* C4 amended: delete(id) of a Website changes nothing in what listAll() and
\* statsByServer() return: the TaskResult rows that refer to the deleted
\* website are still listed and still counted (the join is on CrawlServer only).
C4_DeletedWebsiteRowsKept ==
    [][\A w \in Website \ Website' :
         /\ GetCrawlLogs' = GetCrawlLogs
         /\ GetStatsByServer' = GetStatsByServer
         /\ Cardinality({n \in DOMAIN GetCrawlLogs' : GetCrawlLogs'[n].website_id = w.id})
              = Cardinality({i \in RowsOfServers({S.id : S \in CrawlServer}) :
                               TaskResult[i].website_id = w.id})]_vars

C4_Witness ==
    /\ Website = {}
    /\ Len(TaskResult) = 2
    /\ Len(GetCrawlLogs) = 1
    /\ GetCrawlLogs[1].website_id = 1
    /\ DOMAIN GetStatsByServer # {}

\* ------------------------------------------------ search enrichment
\* d[key] = value on a dict
SetKey(d, key, value) ==
    [k \in DOMAIN d \cup {key} |-> IF k = key THEN value ELSE d[k]]

\* one hit or document, with hit["_source"]["website_url"] set from the dict
JoinOne(hit, websites) ==
    IF hit._source["website_id"] \in DOMAIN websites
    THEN [hit EXCEPT !._source = SetKey(@, "website_url", websites[hit._source["website_id"]])]
    ELSE [hit EXCEPT !._source = SetKey(@, "website_url", DELETED)]

\* join_website_on_search_result that leaves out the hits of deleted websites
JoinWebsiteOnSearchResult_Drop(page) ==
    LET websites == GetAllWebsites
        kept == SelectSeq(page.hits.hits,
                          LAMBDA hit : hit._source["website_id"] \in DOMAIN websites)
    IN  [page EXCEPT !.hits.hits = [n \in DOMAIN kept |-> JoinOne(kept[n], websites)]]

JoinWebsiteOnSearchResult(page) ==
    LET websites == GetAllWebsites
    IN  [page EXCEPT !.hits.hits = [n \in DOMAIN @ |-> JoinOne(@[n], websites)]]

\* website[0] = websites.get(website[0], "[DELETED]") for every pair of the
\* scatter list, in place
JoinWebsiteOnStats(stats) ==
    LET websites == GetAllWebsites
    IN  [stats EXCEPT !.website_scatter =
           [n \in DOMAIN @ |->
              [@[n] EXCEPT ![1] = IF @ \in DOMAIN websites THEN websites[@] ELSE DELETED]]]

Hit(website_id) == [_source |-> [k \in {"website_id"} |-> website_id]]

HitIds == {1, 2}
HitLists == UNION {[1..n -> {Hit(i) : i \in HitIds}] : n \in 0..MaxHits}
ScatterLists == UNION {[1..n -> {<<i, 7>> : i \in HitIds}] : n \in 0..MaxHits}
EnrichUrls == {U_ax, U_ay}

Did(op) == lastOp' = [op |-> op, args |-> <<>>, runs |-> 1]

CallJoinWebsiteOnSearchResult(page) ==
    /\ enrich' = [NoEnrich EXCEPT !.kind = "search", !.page_in = page,
                                  !.page_out = JoinWebsiteOnSearchResult(page)]
    /\ UNCHANGED <<now, Website, BlacklistedWebsite, CrawlServer, TaskResult>>

CallJoinWebsiteOnStats(stats) ==
    /\ enrich' = [NoEnrich EXCEPT !.kind = "stats", !.stats_in = stats,
                                  !.stats_out = JoinWebsiteOnStats(stats)]
    /\ UNCHANGED <<now, Website, BlacklistedWebsite, CrawlServer, TaskResult>>

\* join_website_on_scan(docs) only makes the generator: nothing runs yet
CallJoinWebsiteOnScan(docs) ==
    /\ enrich' = [NoEnrich EXCEPT !.kind = "scan", !.docs_in = docs]
    /\ UNCHANGED <<now, Website, BlacklistedWebsite, CrawlServer, TaskResult>>

\* next() on the generator: the first one fetches the websites, each one
\* yields the next document or ends the generator
ScanNext ==
    /\ enrich.kind = "scan"
    /\ LET websites == IF enrich.websites = None THEN GetAllWebsites
                       ELSE enrich.websites[1]
           n == Len(enrich.docs_out) + 1
       IN  IF n <= Len(enrich.docs_in)
           THEN enrich' = [enrich EXCEPT
                             !.websites = Some(websites),
                             !.docs_out = Append(@, JoinOne(enrich.docs_in[n], websites))]
           ELSE enrich' = [enrich EXCEPT !.websites = Some(websites), !.kind = "scan_done"]
    /\ UNCHANGED <<now, Website, BlacklistedWebsite, CrawlServer, TaskResult>>

EnrInsert == \E url \in EnrichUrls :
                /\ InsertWebsite(url, FleetIp, FleetUserAgent)
                /\ Did("insert_website") /\ UNCHANGED <<caller, enrich>>
EnrDelete == \E id \in WebsiteIds :
                /\ DeleteWebsite(id)
                /\ Did("delete_website") /\ UNCHANGED <<caller, enrich>>
EnrSearch == \E hits \in HitLists :
                /\ CallJoinWebsiteOnSearchResult([hits |-> [hits |-> hits]])
                /\ Did("join_website_on_search_result") /\ UNCHANGED caller
EnrStats == \E scatter \in ScatterLists :
                /\ CallJoinWebsiteOnStats([website_scatter |-> scatter])
                /\ Did("join_website_on_stats") /\ UNCHANGED caller
EnrScan == \E docs \in HitLists :
                /\ CallJoinWebsiteOnScan(docs)
                /\ Did("join_website_on_scan") /\ UNCHANGED caller
EnrScanNext == ScanNext /\ Did("next") /\ UNCHANGED caller

NextEnrich == EnrInsert \/ EnrDelete \/ EnrSearch \/ EnrStats \/ EnrScan \/ EnrScanNext

SpecEnrich == Init /\ [][NextEnrich]_vars

\* the url that belongs to a website id in a set of Website rows
UrlOrDeleted(website_id, rows) ==
    IF \E w \in rows : w.id = website_id
    THEN (CHOOSE w \in rows : w.id = website_id).url
    ELSE DELETED

\* the dict is the id -> url content of the rows
IsSnapshotOf(websites, rows) ==
    /\ DOMAIN websites = {w.id : w \in rows}
    /\ \A w \in rows : websites[w.id] = w.url

\* C7: each of the three enrichments gives one output element per input
\* element, in input order, with the url slot set to the stored url of the
\* element's website_id, or to "[DELETED]" when the id is not in the registry
\* (the generator resolves against the registry as fetched by its first next()).
C7_EnrichmentTotal ==
    /\ lastOp.op = "join_website_on_search_result" =>
         LET in == enrich.page_in.hits.hits
             out == enrich.page_out.hits.hits
         IN  /\ Len(out) = Len(in)
             /\ \A n \in DOMAIN in :
                  /\ out[n]._source["website_id"] = in[n]._source["website_id"]
                  /\ out[n]._source["website_url"] =
                       UrlOrDeleted(in[n]._source["website_id"], Website)
    /\ lastOp.op = "join_website_on_stats" =>
         LET in == enrich.stats_in.website_scatter
             out == enrich.stats_out.website_scatter
         IN  /\ Len(out) = Len(in)
             /\ \A n \in DOMAIN in :
                  out[n] = <<UrlOrDeleted(in[n][1], Website), in[n][2]>>
    /\ enrich.kind \in {"scan", "scan_done"} =>
         /\ Len(enrich.docs_out) <= Len(enrich.docs_in)
         /\ enrich.kind = "scan_done" => Len(enrich.docs_out) = Len(enrich.docs_in)
         /\ enrich.websites = None => enrich.docs_out = <<>>
         /\ (/\ lastOp.op = "next"
             /\ \/ Len(enrich.docs_out) = 1 /\ enrich.kind = "scan"
                \/ Len(enrich.docs_in) <= 1 /\ Len(enrich.docs_out) = 0) =>
              IsSnapshotOf(enrich.websites[1], Website)
         /\ \A n \in DOMAIN enrich.docs_out :
              /\ enrich.docs_out[n]._source["website_id"] =
                   enrich.docs_in[n]._source["website_id"]
              /\ LET id == enrich.docs_in[n]._source["website_id"]
                     websites == enrich.websites[1]
                 IN  enrich.docs_out[n]._source["website_url"] =
                       IF id \in DOMAIN websites THEN websites[id] ELSE DELETED

C7_Witness ==
    /\ lastOp.op = "join_website_on_search_result"
    /\ Len(enrich.page_in.hits.hits) = 2
    /\ Cardinality(Website) = 1
    /\ enrich.page_out.hits.hits[1]._source["website_url"] = DELETED
    /\ enrich.page_out.hits.hits[2]._source["website_url"] = U_ay

\* --------------------------------- specification: every operation
\* lastOp is the operation performed last, with its arguments; runs is 1
\* when the step before was another operation or had other arguments, 2
\* when this one has now been performed twice or more in a row
Record(op, args) ==
    lastOp' = IF lastOp.op = op /\ lastOp.args = args
              THEN [lastOp EXCEPT !.runs = 2]
              ELSE [op |-> op, args |-> args, runs |-> 1]

TotalRows == Cardinality(Website) + Cardinality(BlacklistedWebsite)
             + Cardinality(CrawlServer) + Len(TaskResult)

FullIds == {1, 2}
FullUrls == {U_ax}
FullBlacklistUrls == {U_evilPath}
FullResults == {r \in NewResults(FullIds, FleetWebsiteIds) : r.file_count = 10}

DoTick == Tick /\ Quiet
DoInsert == \E url \in FullUrls :
    /\ TotalRows < MaxTotalRows
    /\ InsertWebsite(url, FleetIp, FleetUserAgent)
    /\ Record("insert_website", <<url, FleetIp, FleetUserAgent>>) /\ UNCHANGED <<caller, enrich>>
DoTouch == \E id \in FullIds :
    /\ UpdateWebsiteDateIfExists(id)
    /\ Record("update_website_date_if_exists", <<id>>) /\ UNCHANGED <<caller, enrich>>
DoDelete == \E id \in FullIds :
    /\ DeleteWebsite(id)
    /\ Record("delete_website", <<id>>) /\ UNCHANGED <<caller, enrich>>
DoBlacklistAdd == \E url \in FullBlacklistUrls :
    /\ TotalRows < MaxTotalRows
    /\ AddBlacklistWebsite(url)
    /\ Record("add_blacklist_website", <<url>>) /\ UNCHANGED <<caller, enrich>>
DoBlacklistRemove == \E id \in FullIds :
    /\ RemoveBlacklistWebsite(id)
    /\ Record("remove_blacklist_website", <<id>>) /\ UNCHANGED <<caller, enrich>>
DoRegister == \E server \in NewServers :
    /\ TotalRows < MaxTotalRows
    /\ AddCrawlServer(server)
    /\ Record("add_crawl_server", <<server>>) /\ UNCHANGED <<caller, enrich>>
DoUnregister == \E id \in FullIds :
    /\ RemoveCrawlServer(id)
    /\ Record("remove_crawl_server", <<id>>) /\ UNCHANGED <<caller, enrich>>
DoUpdate == \E id \in FullIds, u \in ServerUrls, n \in ServerNames, k \in ServerSlots :
    /\ UpdateCrawlServer(id, u, n, k)
    /\ Record("update_crawl_server", <<id, u, n, k>>) /\ UNCHANGED <<caller, enrich>>
DoAppend == \E result \in FullResults :
    /\ TotalRows < MaxTotalRows
    /\ LogResult(result)
    /\ Record("log_result", <<result>>) /\ UNCHANGED <<caller, enrich>>
\* the two readers change no table
DoListAll ==
    /\ Len(GetCrawlLogs) <= Len(TaskResult)
    /\ Record("get_crawl_logs", <<>>)
    /\ UNCHANGED <<now, Website, BlacklistedWebsite, CrawlServer, TaskResult, caller, enrich>>
DoStatsByServer ==
    /\ DOMAIN GetStatsByServer \subseteq ServerNames
    /\ Record("get_stats_by_server", <<>>)
    /\ UNCHANGED <<now, Website, BlacklistedWebsite, CrawlServer, TaskResult, caller, enrich>>

Next == DoTick \/ DoInsert \/ DoTouch \/ DoDelete \/ DoBlacklistAdd \/ DoBlacklistRemove
        \/ DoRegister \/ DoUnregister \/ DoUpdate \/ DoAppend \/ DoListAll \/ DoStatsByServer

Spec == Init /\ [][Next]_vars

\* C8: TaskResult is append-only: no step of any operation changes or removes
\* a row once appended; delete(id) of a Website and unregister(id) of a
\* CrawlServer leave every TaskResult row as it is.
C8_TaskResultAppendOnly ==
    [][/\ Len(TaskResult') >= Len(TaskResult)
       /\ \A i \in DOMAIN TaskResult : TaskResult'[i] = TaskResult[i]
       /\ (Website' # Website \/ CrawlServer' # CrawlServer) => TaskResult' = TaskResult]_vars

C8_Witness ==
    /\ Len(TaskResult) >= 1
    /\ lastOp.op = "remove_crawl_server" /\ lastOp.args = <<1>> /\ lastOp.runs = 1
    /\ TaskResult[1].server = 1
    /\ \E S \in CrawlServer : S.id = 2
    /\ \A S \in CrawlServer : S.id # 1

Tables == <<Website, BlacklistedWebsite, CrawlServer, TaskResult>>

\* this step runs the operation of the step before again, with the same arguments
IsRerun(ops) ==
    /\ lastOp.op \in ops
    /\ lastOp'.op = lastOp.op
    /\ lastOp'.args = lastOp.args
    /\ lastOp'.runs = 2
    /\ lastOp' # lastOp \/ Tables' # Tables

\* C9 as stated: running insert, touch, delete, blacklist add, blacklist
\* remove, register, unregister or update twice in a row with the same
\* arguments leaves the tables as running it once does.
C9_AllWritesIdempotent ==
    [][IsRerun({"insert_website", "update_website_date_if_exists", "delete_website",
                "add_blacklist_website", "remove_blacklist_website", "add_crawl_server",
                "remove_crawl_server", "update_crawl_server"}) => Tables' = Tables]_vars

\* C9 amended: delete, blacklist remove, unregister and update leave the
\* tables the same when run again; touch does so except for last_modified of
\* the touched row, which becomes the time of the later run; insert,
\* blacklist add and register store one more row on every run.
C9_RerunEffects ==
    [][/\ IsRerun({"delete_website", "remove_blacklist_website", "remove_crawl_server",
                   "update_crawl_server"}) => Tables' = Tables
       /\ IsRerun({"update_website_date_if_exists"}) =>
            /\ <<BlacklistedWebsite, CrawlServer, TaskResult>>'
                 = <<BlacklistedWebsite, CrawlServer, TaskResult>>
            /\ {[w EXCEPT !.last_modified = 0] : w \in Website'}
                 = {[w EXCEPT !.last_modified = 0] : w \in Website}
            /\ \A w \in Website' :
                 IF w.id = lastOp.args[1] THEN w.last_modified = now ELSE w \in Website
       /\ IsRerun({"insert_website"}) =>
            /\ Cardinality(Website') = Cardinality(Website) + 1
            /\ <<BlacklistedWebsite, CrawlServer, TaskResult>>'
                 = <<BlacklistedWebsite, CrawlServer, TaskResult>>
       /\ IsRerun({"add_blacklist_website"}) =>
            /\ Cardinality(BlacklistedWebsite') = Cardinality(BlacklistedWebsite) + 1
            /\ <<Website, CrawlServer, TaskResult>>' = <<Website, CrawlServer, TaskResult>>
       /\ IsRerun({"add_crawl_server"}) =>
            /\ Cardinality(CrawlServer') = Cardinality(CrawlServer) + 1
            /\ <<Website, BlacklistedWebsite, TaskResult>>'
                 = <<Website, BlacklistedWebsite, TaskResult>>]_vars

C9_Witness ==
    /\ lastOp.op = "update_crawl_server" /\ lastOp.runs = 2
    /\ \E S \in CrawlServer : S.id = lastOp.args[1] /\ S.name = lastOp.args[3] /\ S.name = "s2"
    /\ Cardinality(Website) = 1

====
